---- MODULE Spec2Model ----
(***************************************************************************)
(* Model of streamlit-ollama: the SQLite-backed chat store (src/src/db.py, *)
(* and its inline variant in src/src/app.py) and the chat turn of the      *)
(* Streamlit script (src/src/app.py, src/app.py).                          *)
(*                                                                         *)
(* The database is the committed content of the two tables plus the        *)
(* AUTOINCREMENT counters.  Every `with self.connection.session` block is  *)
(* one transaction on a connection handed out by the pool; a block that    *)
(* commits twice (save_chat) is modelled as one step per commit.           *)
(***************************************************************************)
EXTENDS Integers, Sequences, FiniteSets, TLC

(* ------------------------------ bounds -------------------------------- *)
MaxChats == 2
MaxMessages == 2
MaxHistory == 3
MaxChunks == 2
MaxNow == 2

(* ----------------------------- constants ------------------------------ *)
\* Python None where a chat id is expected (AUTOINCREMENT ids start at 1).
NoneId == 0
\* Python None where a text is expected: a one-token text outside the alphabet.
None == <<"None">>
\* self.connection of a ChatDB whose __init__ failed.
NoConnection == "None"
\* self.connection of a ChatDB whose __init__ succeeded.
SQLConnection == "SQLConnection"

Sessions == {"s1", "s2"}
\* The browser sessions that run the Streamlit script.
AppSessions == {"s1"}
\* Connections of the SQLAlchemy pool behind st.connection.
Conns == {"c1", "c2"}
Names == {"n", "o"}
\* The names st.text_input returns when nothing, or only a space, was typed.
BlankNames == {"", " "}
Models == {"m"}
\* The models of a chat whose model is changed.
TwoModels == {"m", "l"}

\* app.py's messages table has no model column.
NoModel == ""
\* What the user types into st.chat_input.
Prompts == {<<"p">>}
\* The message.content of the chunks the Ollama client streams; the last one
\* is the empty string.
Chunks == {<<"a">>, <<"b">>, <<>>}

HI == <<"h", "i">>
HEY == <<"h", "e", "y">>
U == [role |-> "user", content |-> HI]
A == [role |-> "assistant", content |-> HEY]
Bad == [role |-> "user", content |-> None]
\* The message lists handed to save_chat.
MessageLists == {<<U, A>>, <<U, Bad>>}
\* The (role, content) arguments handed to save_chat_message.
MessageArgs == {A}
\* The chat ids handed to the store's operations: every id the store can
\* generate, whether it names a chat not yet created, a live or a deleted one.
ChatIds == 1..MaxChats

VARIABLES
    chats,          \* table chats: set of rows [id, name, model, timestamp]
    messages,       \* table messages: set of rows [id, chat_id, model, role, content]
    seq_chats,      \* sqlite_sequence of chats (AUTOINCREMENT)
    seq_messages,   \* sqlite_sequence of messages (AUTOINCREMENT)
    connFK,         \* per pooled connection: PRAGMA foreign_keys is ON
    pc,             \* per session: where its current store call stands
    local,          \* per session: the arguments and locals of a save_chat in progress
    ret,            \* how the call that ended last ended: return value or exception, error log
    connection,     \* per session: self.connection of its ChatDB object
    now,            \* CURRENT_TIMESTAMP, in whole seconds
    ss_chat_id,     \* per session: st.session_state["chat_id"]
    ss_messages,    \* per session: st.session_state["messages"], the working history
    turn,           \* per session: "idle", "streaming", "completed" or "failed"
    full_response,  \* per session: the text st.write_stream has put together
    produced,       \* per session: the chunks the Ollama client has produced this turn
    partials,       \* per session: the texts st.write_stream has rendered this turn
    selected_model, \* per session: st.session_state["selected_model"]
    in_effect       \* per session, history variable: for each entry of the working
                    \* history, the model that was selected when it was produced

vars == <<chats, messages, seq_chats, seq_messages, connFK, pc, local, ret,
          connection, now,
          ss_chat_id, ss_messages, turn, full_response, produced, partials,
          selected_model, in_effect>>

\* The session state of the Streamlit script.
app == <<ss_chat_id, ss_messages, turn, full_response, produced, partials,
         selected_model, in_effect>>

db == <<chats, messages, seq_chats, seq_messages>>

NoLocal == [name |-> "", model |-> "", messages |-> <<>>, chat_id |-> NoneId, rowid |-> NoneId]
\* The outcome of a call: "returned" or the exception raised, the chat id
\* returned (NoneId for None), and "error" when log.error / log.exception ran.
Outcome(status, chat_id, log) ==
    [status |-> status, chat_id |-> chat_id, log |-> log]

(* --------------------------- the SQL statements ----------------------- *)

\* The chats table declared without UNIQUE on name.
UniqueViolationNotEnforced(name) == FALSE

\* name TEXT UNIQUE: the INSERT of a chat named `name` is rejected.
UniqueViolation(name) == \E c \in chats : c.name = name

\* A chat row with this id exists.
ChatExists(chat_id) == \E c \in chats : c.id = chat_id

\* INSERT INTO chats (name, model): the row the statement adds.
NewChatRow(name, model) ==
    [id |-> seq_chats + 1, name |-> name, model |-> model, timestamp |-> now]

\* SELECT id FROM chats WHERE name = :name ... .scalar()
SelectIdByName(name) ==
    IF \E c \in chats : c.name = name
    THEN (CHOOSE c \in chats : c.name = name).id
    ELSE NoneId

\* INSERT INTO messages (chat_id, model, role, content) is rejected: chat_id
\* and content are NOT NULL, and chat_id REFERENCES chats(id) where the
\* connection enforces foreign keys (fk).
MessageInsertRejected(fk, chat_id, msg) ==
    \/ chat_id = NoneId
    \/ msg.content = None
    \/ fk /\ ~ChatExists(chat_id)

\* The rows the loop `for msg in messages: INSERT INTO messages ...` adds.
NewMessageRows(chat_id, model, msgs) ==
    { [id |-> seq_messages + i, chat_id |-> chat_id, model |-> model,
       role |-> msgs[i].role, content |-> msgs[i].content] : i \in 1..Len(msgs) }

\* ORDER BY id ASC
RECURSIVE OrderByIdAsc(_)
OrderByIdAsc(rows) ==
    IF rows = {} THEN <<>>
    ELSE LET r == CHOOSE x \in rows : \A y \in rows : x.id <= y.id
         IN  <<r>> \o OrderByIdAsc(rows \ {r})

\* SELECT role, content FROM messages WHERE chat_id = :chat_id ORDER BY id ASC
GetChatMessages(chat_id) ==
    LET rows == OrderByIdAsc({m \in messages : m.chat_id = chat_id})
    IN  [i \in 1..Len(rows) |-> [role |-> rows[i].role, content |-> rows[i].content]]

\* DELETE FROM chats WHERE id = :chat_id: the messages left after the
\* statement (ON DELETE CASCADE acts where the connection enforces foreign
\* keys, fk).
MessagesAfterDelete(fk, chat_id) ==
    IF fk /\ ChatExists(chat_id)
    THEN {m \in messages : m.chat_id # chat_id}
    ELSE messages

\* ORDER BY timestamp DESC: the orders the statement may return rows in. The
\* timestamps are whole seconds; the order among rows of one second is not
\* determined by the statement.
OrderByTimestampDesc(rows) ==
    LET n == Cardinality(rows) IN
    { r \in [1..n -> rows] :
        /\ \A i, j \in 1..n : i # j => r[i] # r[j]
        /\ \A i, j \in 1..n : i < j => r[i].timestamp >= r[j].timestamp }

\* SELECT id, name, model, timestamp FROM chats ORDER BY timestamp DESC: the
\* results the statement may return.
ListChats == OrderByTimestampDesc(chats)

\* SELECT model FROM chats ORDER BY timestamp DESC LIMIT 1: the values
\* fetchone() may return, None for no row.
LastUsedModel ==
    IF chats = {} THEN {None} ELSE {r[1].model : r \in ListChats}

\* list_chats, lines 182-199: the results the call may return; [] without a
\* connection.
list_chats(s) ==
    IF connection[s] = NoConnection THEN {<<>>} ELSE ListChats

\* get_chat_messages, lines 120-140: [] without a connection.
get_chat_messages(s, chat_id) ==
    IF connection[s] = NoConnection THEN <<>> ELSE GetChatMessages(chat_id)

\* last_used_model, lines 201-222: the values the call may return; None
\* without a connection.
last_used_model(s) ==
    IF connection[s] = NoConnection THEN {None} ELSE LastUsedModel

\* `with self.connection.session`: the pool hands out any of its connections;
\* the foreign_keys settings a new session can meet.
SessionFK == {connFK[c] : c \in Conns}

\* config.STREAMLIT_OLLAMA_ASSISTANT_GREETING as the assistant's first message.
Greeting == [role |-> "assistant", content |-> <<"g">>]

\* app.py lines 303-307, run at every script run: an empty working history
\* is replaced by the greeting.
Greeted(msgs) == IF Len(msgs) = 0 THEN <<Greeting>> ELSE msgs

\* The entries of a history that no model of this session produced: the
\* configured greeting, and the messages read back from the store.
NotProduced(msgs) == [i \in 1..Len(msgs) |-> NoModel]

(* ------------------------------- Init --------------------------------- *)

\* The state after ChatDB.__init__ ran once on an empty database file: the
\* tables exist and are empty, and the connection that served the PRAGMA
\* session enforces foreign keys.
Init ==
    /\ chats = {}
    /\ messages = {}
    /\ seq_chats = 0
    /\ seq_messages = 0
    /\ connFK = [c \in Conns |-> c = "c1"]
    /\ pc = [s \in Sessions |-> "idle"]
    /\ local = [s \in Sessions |-> NoLocal]
    /\ ret = Outcome("returned", NoneId, "")
    /\ connection = [s \in Sessions |-> SQLConnection]
    /\ now = 0
    /\ ss_chat_id = [s \in Sessions |-> NoneId]
    /\ ss_messages = [s \in Sessions |-> Greeted(<<>>)]
    /\ turn = [s \in Sessions |-> "idle"]
    /\ full_response = [s \in Sessions |-> <<>>]
    /\ produced = [s \in Sessions |-> <<>>]
    /\ partials = [s \in Sessions |-> <<>>]
    /\ selected_model = [s \in Sessions |-> "m"]
    /\ in_effect = [s \in Sessions |-> NotProduced(Greeted(<<>>))]

(* ------------------------- ChatDB (src/src/db.py) --------------------- *)

\* The table dropped and created anew.
CreateTableAnew(rows) == {}

\* CREATE TABLE IF NOT EXISTS on a database that has the table: the rows of
\* the table after the statement.
CreateTableIfNotExists(rows) == rows

\* ChatDB.__init__ run again (a new ChatDB object): the PRAGMA reaches the
\* connection the pool hands out and CREATE TABLE IF NOT EXISTS changes
\* nothing; or the database cannot be reached, the exception is logged and
\* self.connection is None.
ChatDBInit(s) ==
    /\ pc[s] = "idle"
    /\ \/ /\ \E conn \in Conns : connFK' = [connFK EXCEPT ![conn] = TRUE]
          /\ chats' = CreateTableIfNotExists(chats)
          /\ messages' = CreateTableIfNotExists(messages)
          /\ connection' = [connection EXCEPT ![s] = SQLConnection]
          /\ ret' = Outcome("returned", NoneId, "")
       \/ /\ connection' = [connection EXCEPT ![s] = NoConnection]
          /\ ret' = Outcome("returned", NoneId, "error")
          /\ UNCHANGED <<chats, messages, connFK>>
    /\ UNCHANGED <<seq_chats, seq_messages, pc, local, now>>
    /\ UNCHANGED app

\* A second of wall-clock time passes.
Tick ==
    /\ now < MaxNow
    /\ now' = now + 1
    /\ UNCHANGED <<db, connFK, pc, local, ret, connection>>
    /\ UNCHANGED app

\* save_chat, lines 64-74: RuntimeError without a connection; else INSERT
\* INTO chats and the first commit; an IntegrityError is rolled back and
\* re-raised as ChatExistsError.
SaveChatInsertChat(s, name, model, msgs) ==
    /\ pc[s] = "idle"
    /\ IF connection[s] = NoConnection
       THEN /\ ret' = Outcome("RuntimeError", NoneId, "")
            /\ UNCHANGED <<db, connFK, pc, local>>
       ELSE IF UniqueViolation(name)
       THEN /\ ret' = Outcome("ChatExistsError", NoneId, "")
            /\ UNCHANGED <<db, connFK, pc, local>>
       ELSE /\ seq_chats < MaxChats
            /\ chats' = chats \cup {NewChatRow(name, model)}
            /\ seq_chats' = seq_chats + 1
            /\ pc' = [pc EXCEPT ![s] = "save_chat_select"]
            /\ local' = [local EXCEPT ![s] =
                    [name |-> name, model |-> model, messages |-> msgs,
                     chat_id |-> NoneId, rowid |-> seq_chats + 1]]
            /\ UNCHANGED <<messages, seq_messages, connFK, ret>>
    /\ UNCHANGED <<connection, now>>
    /\ UNCHANGED app

\* save_chat, lines 76-80: the id is looked up by name after the commit.
SaveChatSelectId(s) ==
    /\ pc[s] = "save_chat_select"
    /\ local' = [local EXCEPT ![s].chat_id = SelectIdByName(local[s].name)]
    /\ pc' = [pc EXCEPT ![s] = "save_chat_messages"]
    /\ UNCHANGED <<db, connFK, ret, connection, now>>
    /\ UNCHANGED app

\* save_chat, lines 82-98: the message inserts and the second commit; a
\* rejected insert rolls back this second transaction and is re-raised as
\* ChatExistsError.
SaveChatInsertMessages(s) ==
    /\ pc[s] = "save_chat_messages"
    /\ \E fk \in SessionFK :
         LET l == local[s] IN
         IF \E i \in 1..Len(l.messages) : MessageInsertRejected(fk, l.chat_id, l.messages[i])
         THEN /\ ret' = Outcome("ChatExistsError", NoneId, "")
              /\ UNCHANGED <<messages, seq_messages>>
         ELSE /\ seq_messages + Len(l.messages) <= MaxMessages
              /\ messages' = messages \cup NewMessageRows(l.chat_id, l.model, l.messages)
              /\ seq_messages' = seq_messages + Len(l.messages)
              /\ ret' = Outcome("returned", l.chat_id, "")
    /\ pc' = [pc EXCEPT ![s] = "idle"]
    /\ local' = [local EXCEPT ![s] = NoLocal]
    /\ UNCHANGED <<chats, seq_chats, connFK, connection, now>>
    /\ UNCHANGED app

\* The exception of the INSERT let through to the caller.
SaveChatMessageFailureRaised == Outcome("IntegrityError", NoneId, "")

\* save_chat_message, lines 104-106 and 117-118: without a connection, and
\* on any exception, an error is logged and the call returns.
SaveChatMessageFailure == Outcome("returned", NoneId, "error")

\* save_chat_message, lines 100-118: one INSERT and a commit; any exception
\* is logged and swallowed, so the call returns normally either way.
SaveChatMessage(s, chat_id, model, role, content) ==
    /\ pc[s] = "idle"
    /\ IF connection[s] = NoConnection
       THEN /\ ret' = SaveChatMessageFailure
            /\ UNCHANGED <<messages, seq_messages>>
       ELSE \E fk \in SessionFK :
         IF MessageInsertRejected(fk, chat_id, [role |-> role, content |-> content])
         THEN /\ ret' = SaveChatMessageFailure
              /\ UNCHANGED <<messages, seq_messages>>
         ELSE /\ seq_messages < MaxMessages
              /\ messages' = messages \cup
                     NewMessageRows(chat_id, model, <<[role |-> role, content |-> content]>>)
              /\ seq_messages' = seq_messages + 1
              /\ ret' = Outcome("returned", NoneId, "")
    /\ UNCHANGED <<chats, seq_chats, connFK, pc, local, connection, now>>
    /\ UNCHANGED app

\* UPDATE chats SET model = :model, without the WHERE clause.
ChatsAfterUpdateOfEveryRow(chat_id, model) ==
    {[c EXCEPT !.model = model] : c \in chats}

\* UPDATE chats SET model = :model WHERE id = :chat_id: the table after the
\* statement.
ChatsAfterUpdate(chat_id, model) ==
    {IF c.id = chat_id THEN [c EXCEPT !.model = model] ELSE c : c \in chats}

\* update_chat_model, lines 142-160: without a connection an error is logged
\* and the call returns; else the UPDATE and a commit.
UpdateChatModel(s, chat_id, model) ==
    /\ pc[s] = "idle"
    /\ IF connection[s] = NoConnection
       THEN /\ ret' = Outcome("returned", NoneId, "error")
            /\ UNCHANGED chats
       ELSE /\ chats' = ChatsAfterUpdate(chat_id, model)
            /\ ret' = Outcome("returned", NoneId, "")
    /\ UNCHANGED <<messages, seq_chats, seq_messages, connFK, pc, local, connection, now>>
    /\ UNCHANGED app

\* delete_chat, lines 162-180: without a connection an error is logged and
\* the call returns; else DELETE FROM chats WHERE id and a commit.
DeleteChat(s, chat_id) ==
    /\ pc[s] = "idle"
    /\ IF connection[s] = NoConnection
       THEN /\ ret' = Outcome("returned", NoneId, "error")
            /\ UNCHANGED <<chats, messages>>
       ELSE /\ \E fk \in SessionFK :
                 /\ chats' = {c \in chats : c.id # chat_id}
                 /\ messages' = MessagesAfterDelete(fk, chat_id)
            /\ ret' = Outcome("returned", NoneId, "")
    /\ UNCHANGED <<seq_chats, seq_messages, connFK, pc, local, connection, now>>
    /\ UNCHANGED app

(* ------------------- the Streamlit script (src/src/app.py) ------------ *)

\* A widget interaction starts a new script run: the turn of the run before
\* is over and its locals are gone.
NewRun(s) ==
    /\ turn' = [turn EXCEPT ![s] = "idle"]
    /\ full_response' = [full_response EXCEPT ![s] = <<>>]
    /\ produced' = [produced EXCEPT ![s] = <<>>]
    /\ partials' = [partials EXCEPT ![s] = <<>>]

\* "Save Chat" and the dialog's "Save": ChatDB.save, lines 65-74. The button
\* shows while the session has no chat id and a non-empty history. Without a
\* connection an error is logged and the call returns; every exception of
\* save is logged and swallowed.
AppSaveInsertChat(s, name, model) ==
    /\ pc[s] = "idle" /\ turn[s] # "streaming"
    /\ ss_chat_id[s] = NoneId /\ Len(ss_messages[s]) > 0
    /\ model = selected_model[s]
    /\ IF connection[s] = NoConnection \/ UniqueViolation(name)
       THEN /\ ret' = Outcome("returned", NoneId, "error")
            /\ UNCHANGED <<db, pc, local>>
       ELSE /\ seq_chats < MaxChats
            /\ chats' = chats \cup {NewChatRow(name, model)}
            /\ seq_chats' = seq_chats + 1
            /\ pc' = [pc EXCEPT ![s] = "app_save_select"]
            /\ local' = [local EXCEPT ![s] =
                    [name |-> name, model |-> model, messages |-> ss_messages[s],
                     chat_id |-> NoneId, rowid |-> seq_chats + 1]]
            /\ UNCHANGED <<messages, seq_messages, ret>>
    /\ NewRun(s)
    /\ UNCHANGED <<connFK, connection, now, ss_chat_id, ss_messages>>
    /\ UNCHANGED <<selected_model, in_effect>>

\* ChatDB.save, lines 76-84: the id is looked up by name; no row ends the
\* call with an error logged.
AppSaveSelectId(s) ==
    /\ pc[s] = "app_save_select"
    /\ IF SelectIdByName(local[s].name) = NoneId
       THEN /\ ret' = Outcome("returned", NoneId, "error")
            /\ pc' = [pc EXCEPT ![s] = "idle"]
            /\ local' = [local EXCEPT ![s] = NoLocal]
       ELSE /\ local' = [local EXCEPT ![s].chat_id = SelectIdByName(local[s].name)]
            /\ pc' = [pc EXCEPT ![s] = "app_save_messages"]
            /\ UNCHANGED ret
    /\ UNCHANGED <<db, connFK, connection, now, app>>

\* ChatDB.save, lines 86-95: the message inserts, the second commit, and the
\* session's chat id set to the id found; then the dialog's st.rerun().
AppSaveInsertMessages(s) ==
    /\ pc[s] = "app_save_messages"
    /\ \E fk \in SessionFK :
         LET l == local[s] IN
         IF \E i \in 1..Len(l.messages) : MessageInsertRejected(fk, l.chat_id, l.messages[i])
         THEN /\ ret' = Outcome("returned", NoneId, "error")
              /\ UNCHANGED <<messages, seq_messages, ss_chat_id>>
         ELSE /\ messages' = messages \cup NewMessageRows(l.chat_id, NoModel, l.messages)
              /\ seq_messages' = seq_messages + Len(l.messages)
              /\ ss_chat_id' = [ss_chat_id EXCEPT ![s] = l.chat_id]
              /\ ret' = Outcome("returned", NoneId, "")
    /\ pc' = [pc EXCEPT ![s] = "idle"]
    /\ local' = [local EXCEPT ![s] = NoLocal]
    /\ UNCHANGED <<chats, seq_chats, connFK, connection, now>>
    /\ UNCHANGED <<ss_messages, turn, full_response, produced, partials>>
    /\ UNCHANGED <<selected_model, in_effect>>

\* A saved chat's button, lines 287-298: ChatDB.list, ChatDB.get_messages, the
\* session takes the chat's messages, model and id, st.rerun().
AppLoadChat(s, chat_id) ==
    /\ pc[s] = "idle" /\ turn[s] # "streaming"
    /\ \E saved_chats \in list_chats(s) :
           chat_id \in {saved_chats[i].id : i \in DOMAIN saved_chats}
    /\ ss_messages' = [ss_messages EXCEPT ![s] = Greeted(get_chat_messages(s, chat_id))]
    /\ selected_model' = [selected_model EXCEPT ![s] =
            (CHOOSE c \in chats : c.id = chat_id).model]
    /\ in_effect' = [in_effect EXCEPT ![s] =
            NotProduced(Greeted(get_chat_messages(s, chat_id)))]
    /\ ss_chat_id' = [ss_chat_id EXCEPT ![s] = chat_id]
    /\ ret' = Outcome("returned", NoneId, "")
    /\ NewRun(s)
    /\ UNCHANGED <<db, connFK, pc, local, connection, now>>

\* "Delete Chat", lines 278-283 and ChatDB.delete, lines 175-190; the
\* session is reset whether or not ChatDB.delete deleted anything.
AppDeleteChat(s) ==
    /\ pc[s] = "idle" /\ turn[s] # "streaming"
    /\ ss_chat_id[s] # NoneId /\ Len(ss_messages[s]) > 1
    /\ IF connection[s] = NoConnection
       THEN /\ ret' = Outcome("returned", NoneId, "error")
            /\ UNCHANGED <<chats, messages>>
       ELSE /\ \E fk \in SessionFK :
                 /\ chats' = {c \in chats : c.id # ss_chat_id[s]}
                 /\ messages' = MessagesAfterDelete(fk, ss_chat_id[s])
            /\ ret' = Outcome("returned", NoneId, "")
    /\ ss_messages' = [ss_messages EXCEPT ![s] = Greeted(<<>>)]
    /\ in_effect' = [in_effect EXCEPT ![s] = NotProduced(Greeted(<<>>))]
    /\ ss_chat_id' = [ss_chat_id EXCEPT ![s] = NoneId]
    /\ NewRun(s)
    /\ UNCHANGED selected_model
    /\ UNCHANGED <<seq_chats, seq_messages, connFK, pc, local, connection, now>>

\* "New Chat", lines 240-244.
AppNewChat(s) ==
    /\ pc[s] = "idle" /\ turn[s] # "streaming"
    /\ Len(ss_messages[s]) > 0
    /\ ss_messages' = [ss_messages EXCEPT ![s] = Greeted(<<>>)]
    /\ in_effect' = [in_effect EXCEPT ![s] = NotProduced(Greeted(<<>>))]
    /\ ss_chat_id' = [ss_chat_id EXCEPT ![s] = NoneId]
    /\ NewRun(s)
    /\ UNCHANGED selected_model
    /\ UNCHANGED <<db, connFK, pc, local, ret, connection, now>>

\* The chat turn, lines 317-328: the prompt joins the working history and
\* ollama.chat(stream=True) is called.
StartTurn(s, prompt) ==
    /\ pc[s] = "idle" /\ turn[s] # "streaming"
    /\ Len(ss_messages[s]) + 2 <= MaxHistory
    /\ ss_messages' = [ss_messages EXCEPT ![s] =
            Append(@, [role |-> "user", content |-> prompt])]
    /\ turn' = [turn EXCEPT ![s] = "streaming"]
    /\ full_response' = [full_response EXCEPT ![s] = <<>>]
    /\ produced' = [produced EXCEPT ![s] = <<>>]
    /\ partials' = [partials EXCEPT ![s] = <<>>]
    /\ in_effect' = [in_effect EXCEPT ![s] = Append(@, selected_model[s])]
    /\ UNCHANGED <<db, connFK, pc, local, ret, connection, now, ss_chat_id>>
    /\ UNCHANGED selected_model

\* The chunk put in front of the text instead of behind it.
StreamedPrepends(text, chunk) == chunk \o text

\* st.write_stream's running text after one more chunk of response_streamer.
Streamed(text, chunk) == text \o chunk

\* The script may be inside st.write_stream at any time after a first turn
\* began.
InWriteStreamOrAfter(s) == turn[s] # "idle"

\* The script is inside st.write_stream(response_streamer), line 338.
InWriteStream(s) == turn[s] = "streaming"

\* An empty chunk rendered like any other.
RenderedEveryChunk(shown, text, chunk) == Append(shown, Streamed(text, chunk))

\* The texts st.write_stream has rendered after one more chunk: the running
\* text is rendered again after every chunk but an empty one, which
\* st.write_stream skips.
Rendered(shown, text, chunk) ==
    IF chunk = <<>> THEN shown ELSE Append(shown, Streamed(text, chunk))

\* Lines 332-338: response_streamer yields the next chunk's message.content
\* and st.write_stream adds it to the text it shows.
StreamChunk(s, chunk) ==
    /\ InWriteStream(s)
    /\ Len(produced[s]) < MaxChunks
    /\ produced' = [produced EXCEPT ![s] = Append(@, chunk)]
    /\ full_response' = [full_response EXCEPT ![s] = Streamed(@, chunk)]
    /\ partials' = [partials EXCEPT ![s] = Rendered(@, full_response[s], chunk)]
    /\ UNCHANGED <<db, connFK, pc, local, ret, connection, now>>
    /\ UNCHANGED <<ss_chat_id, ss_messages, turn, selected_model, in_effect>>

\* The working history after the stream ended, line 339.
HistoryAfterTurn(msgs, text) == Append(msgs, [role |-> "assistant", content |-> text])

\* The reply inserted into the messages table whether or not the session has
\* a chat id.
MessagesAfterTurnWritten(s, text) ==
    messages \cup {[id |-> seq_messages + 1, chat_id |-> ss_chat_id[s], model |-> NoModel,
                    role |-> "assistant", content |-> text]}

\* The messages table after the stream ended: lines 338-339 make no call to
\* the store.
MessagesAfterTurn(s, text) == messages

\* Lines 338-339: the stream ends, st.write_stream returns the whole text and
\* the assistant message joins the working history. Nothing is written to
\* the database.
TurnDone(s) ==
    /\ turn[s] = "streaming"
    /\ ss_messages' = [ss_messages EXCEPT ![s] = HistoryAfterTurn(@, full_response[s])]
    /\ turn' = [turn EXCEPT ![s] = "completed"]
    /\ messages' = MessagesAfterTurn(s, full_response[s])
    /\ UNCHANGED <<chats, seq_chats, seq_messages, connFK, pc, local, ret, connection, now>>
    /\ in_effect' = [in_effect EXCEPT ![s] = Append(@, selected_model[s])]
    /\ UNCHANGED <<ss_chat_id, full_response, produced, partials, selected_model>>

\* The exception caught around the stream and the text so far kept as the reply.
HistoryAfterFailureKeepsPartial(msgs, text) ==
    Append(msgs, [role |-> "assistant", content |-> text])

\* The working history after the client raised.
HistoryAfterFailure(msgs, text) == msgs

\* ollama.chat or the iteration of response_stream raises: the exception
\* leaves the script before line 339, the text so far is dropped.
TurnFail(s) ==
    /\ turn[s] = "streaming"
    /\ ss_messages' = [ss_messages EXCEPT ![s] = HistoryAfterFailure(@, full_response[s])]
    /\ turn' = [turn EXCEPT ![s] = "failed"]
    /\ full_response' = [full_response EXCEPT ![s] = <<>>]
    /\ UNCHANGED <<db, connFK, pc, local, ret, connection, now>>
    /\ UNCHANGED <<ss_chat_id, produced, partials, selected_model, in_effect>>

\* The model selectbox, lines 246-273: the user picks another of the models
\* the Ollama client lists; the pick starts a new script run.
SelectModel(s, model) ==
    /\ pc[s] = "idle" /\ turn[s] # "streaming"
    /\ model # selected_model[s]
    /\ selected_model' = [selected_model EXCEPT ![s] = model]
    /\ NewRun(s)
    /\ UNCHANGED <<db, connFK, pc, local, ret, connection, now>>
    /\ UNCHANGED <<ss_chat_id, ss_messages, in_effect>>

\* The dialog's "Save", lines 198-208, served by the save_chat of
\* src/src/db.py: the call passes the model selected now and the whole
\* working history.
DialogSaveChat(s, name) ==
    /\ turn[s] # "streaming"
    /\ ss_chat_id[s] = NoneId /\ Len(ss_messages[s]) > 0
    /\ SaveChatInsertChat(s, name, selected_model[s], ss_messages[s])

NextApp ==
    \E s \in AppSessions :
        \/ \E name \in Names, model \in Models : AppSaveInsertChat(s, name, model)
        \/ AppSaveSelectId(s)
        \/ AppSaveInsertMessages(s)
        \/ \E chat_id \in ChatIds : AppLoadChat(s, chat_id)
        \/ AppDeleteChat(s)
        \/ AppNewChat(s)
        \/ \E prompt \in Prompts : StartTurn(s, prompt)
        \/ \E chunk \in Chunks : StreamChunk(s, chunk)
        \/ TurnDone(s)
        \/ TurnFail(s)

SpecApp == Init /\ [][NextApp]_vars

\* Two browser sessions on one database: saving, loading, deleting and
\* leaving chats, and turns whose stream ends or fails before a chunk.
NextShared ==
    \E s \in Sessions :
        \/ \E name \in Names, model \in Models : AppSaveInsertChat(s, name, model)
        \/ AppSaveSelectId(s)
        \/ AppSaveInsertMessages(s)
        \/ \E chat_id \in ChatIds : AppLoadChat(s, chat_id)
        \/ AppDeleteChat(s)
        \/ AppNewChat(s)
        \/ \E prompt \in Prompts : StartTurn(s, prompt)
        \/ TurnDone(s)
        \/ TurnFail(s)

SpecShared == Init /\ [][NextShared]_vars

\* One conversation of one session: its turns, "Save Chat" and "New Chat".
NextTurn ==
    \E s \in AppSessions :
        \/ \E name \in Names, model \in Models : AppSaveInsertChat(s, name, model)
        \/ AppSaveSelectId(s)
        \/ AppSaveInsertMessages(s)
        \/ AppNewChat(s)
        \/ \E prompt \in Prompts : StartTurn(s, prompt)
        \/ \E chunk \in Chunks : StreamChunk(s, chunk)
        \/ TurnDone(s)
        \/ TurnFail(s)

SpecTurn == Init /\ [][NextTurn]_vars

\* One session of the script on the ChatDB of src/src/db.py: the user
\* changes the model between turns and saves through the dialog.
NextModel ==
    \E s \in AppSessions :
        \/ \E model \in TwoModels : SelectModel(s, model)
        \/ \E prompt \in Prompts : StartTurn(s, prompt)
        \/ \E chunk \in Chunks : StreamChunk(s, chunk)
        \/ TurnDone(s)
        \/ TurnFail(s)
        \/ AppNewChat(s)
        \/ \E name \in Names : DialogSaveChat(s, name)
        \/ SaveChatSelectId(s)
        \/ SaveChatInsertMessages(s)

SpecModel == Init /\ [][NextModel]_vars

Next ==
    \E s \in Sessions :
        \/ \E name \in Names, model \in Models, msgs \in MessageLists :
               SaveChatInsertChat(s, name, model, msgs)
        \/ SaveChatSelectId(s)
        \/ SaveChatInsertMessages(s)
        \/ \E chat_id \in ChatIds, model \in Models, msg \in MessageArgs :
               SaveChatMessage(s, chat_id, model, msg.role, msg.content)
        \/ \E chat_id \in ChatIds, model \in Models : UpdateChatModel(s, chat_id, model)
        \/ \E chat_id \in ChatIds : DeleteChat(s, chat_id)

Spec == Init /\ [][Next]_vars

\* One session alone, every call run to its end before the next begins, with
\* single-message lists among the arguments of save_chat.
NextSeq ==
    \/ \E name \in Names \cup BlankNames, model \in Models,
          msgs \in MessageLists \cup {<<U>>} :
           SaveChatInsertChat("s1", name, model, msgs)
    \/ SaveChatSelectId("s1")
    \/ SaveChatInsertMessages("s1")
    \/ \E chat_id \in ChatIds, model \in Models, msg \in MessageArgs :
           SaveChatMessage("s1", chat_id, model, msg.role, msg.content)
    \/ \E chat_id \in ChatIds, model \in Models : UpdateChatModel("s1", chat_id, model)
    \/ \E chat_id \in ChatIds : DeleteChat("s1", chat_id)

SpecSeq == Init /\ [][NextSeq]_vars

\* One session whose ChatDB object is constructed again and again, with the
\* database reachable or not.
NextInit ==
    \/ ChatDBInit("s1")
    \/ \E name \in Names, model \in Models, msgs \in MessageLists :
           SaveChatInsertChat("s1", name, model, msgs)
    \/ SaveChatSelectId("s1")
    \/ SaveChatInsertMessages("s1")
    \/ \E chat_id \in ChatIds, model \in Models, msg \in MessageArgs :
           SaveChatMessage("s1", chat_id, model, msg.role, msg.content)
    \/ \E chat_id \in ChatIds, model \in Models : UpdateChatModel("s1", chat_id, model)
    \/ \E chat_id \in ChatIds : DeleteChat("s1", chat_id)

SpecInit == Init /\ [][NextInit]_vars

\* One session while time passes, with chats of two models.
NextClock ==
    \/ Tick
    \/ \E name \in Names, model \in TwoModels :
           SaveChatInsertChat("s1", name, model, <<U>>)
    \/ SaveChatSelectId("s1")
    \/ SaveChatInsertMessages("s1")
    \/ \E chat_id \in ChatIds, model \in TwoModels :
           SaveChatMessage("s1", chat_id, model, A.role, A.content)
    \/ \E chat_id \in ChatIds, model \in TwoModels : UpdateChatModel("s1", chat_id, model)
    \/ \E chat_id \in ChatIds : DeleteChat("s1", chat_id)

SpecClock == Init /\ [][NextClock]_vars

(* ------------------------------ claims -------------------------------- *)

\* The ids list_chats returns.
ListedIds == {r[i].id : r \in ListChats, i \in 1..Cardinality(chats)}

\* A chat named `name` is stored (read off the table, not off the constraint).
NameInUse(name) == \E c \in chats : c.name = name

\* Session s is inside save_chat, past its first commit.
InSaveChat(s) == pc[s] \in {"save_chat_select", "save_chat_messages"}

\* C1: while a save_chat is in progress, a list_chats / get_chat_messages of
\* another session never sees the new chat row without all the messages passed
\* to that save_chat.
C1_NoPartialWriteObservable ==
    \A s \in Sessions :
        (InSaveChat(s) /\ local[s].rowid \in ListedIds)
            => GetChatMessages(local[s].rowid) = local[s].messages

\* C2: save_chat with a name already used by a stored chat raises
\* ChatExistsError and leaves both tables, the counters and what
\* get_chat_messages returns for every chat exactly as they were.
C2_DuplicateNameLeavesDbUnchanged ==
    [][\A name \in Names :
          (/\ NameInUse(name)
           /\ \E s \in Sessions, model \in Models, msgs \in MessageLists :
                  SaveChatInsertChat(s, name, model, msgs))
              => /\ ret'.status = "ChatExistsError"
                 /\ pc' = pc
                 /\ chats' = chats /\ messages' = messages
                 /\ seq_chats' = seq_chats /\ seq_messages' = seq_messages
                 /\ \A id \in ChatIds : GetChatMessages(id)' = GetChatMessages(id)]_vars

\* C2 witness: the only chat ever inserted is stored with its two messages, and
\* the call that ended last, a second save_chat, raised ChatExistsError.
C2_Witness ==
    /\ seq_chats = 1
    /\ \E c \in chats : c.id = 1
    /\ GetChatMessages(1) = <<U, A>>
    /\ \A s \in Sessions : pc[s] = "idle"
    /\ ret.status = "ChatExistsError"

\* C3: when save_chat fails after it has started, the chat row it inserted
\* does not remain in the database.
C3_FailedSaveLeavesNoChatRow ==
    [][\A s \in Sessions :
          (InSaveChat(s) /\ pc'[s] = "idle" /\ ret'.status # "returned")
              => ~\E c \in chats' : c.id = local[s].rowid]_vars

\* C4: a save_chat that returns id is followed by get_chat_messages(id)
\* returning exactly the messages passed, in order; and every
\* save_chat_message that inserts a row adds it at the end of its chat's
\* messages.
C4_RoundTrip ==
    [][\A s \in Sessions :
          /\ \A id \in ChatIds :
                (pc[s] = "save_chat_messages" /\ pc'[s] = "idle"
                    /\ ret'.status = "returned" /\ ret'.chat_id = id)
                => GetChatMessages(id)' = local[s].messages
          /\ \A chat_id \in ChatIds, model \in Models, msg \in MessageArgs :
                (SaveChatMessage(s, chat_id, model, msg.role, msg.content)
                    /\ messages' # messages)
                => GetChatMessages(chat_id)' = Append(GetChatMessages(chat_id), msg)]_vars

\* C8: every stored message references a live chat.
C8_EveryMessageReferencesLiveChat ==
    \A m \in messages : ChatExists(m.chat_id)

\* C9: after delete_chat(id), get_chat_messages(id) is empty, list_chats omits
\* id, no message row of id remains, and the other chats and their messages
\* are unchanged.
C9_DeleteCascades ==
    [][\A s \in Sessions, chat_id \in ChatIds :
          DeleteChat(s, chat_id)
              => /\ GetChatMessages(chat_id)' = <<>>
                 /\ chat_id \notin ListedIds'
                 /\ ~\E m \in messages' : m.chat_id = chat_id
                 /\ {c \in chats' : c.id # chat_id} = {c \in chats : c.id # chat_id}
                 /\ {m \in messages' : m.chat_id # chat_id}
                        = {m \in messages : m.chat_id # chat_id}]_vars

\* C10: save_chat_message with a chat_id that references no live chat fails
\* with NotFound and inserts no message row.
C10_AppendToDeadChatFails ==
    [][\A s \in Sessions, chat_id \in ChatIds, model \in Models, msg \in MessageArgs :
          (~(\E c \in chats : c.id = chat_id)
                /\ SaveChatMessage(s, chat_id, model, msg.role, msg.content))
              => /\ ret'.status = "NotFound"
                 /\ messages' = messages]_vars

\* C11: save_chat with an empty or blank name fails with ValidationError and
\* inserts nothing, and no chat with an empty or blank name is ever stored.
C11_BlankNameRejected ==
    [][/\ \A s \in Sessions, name \in BlankNames, model \in Models,
             msgs \in MessageLists \cup {<<U>>} :
              SaveChatInsertChat(s, name, model, msgs)
                  => (ret'.status = "ValidationError" /\ UNCHANGED db)
       /\ \A c \in chats' : c.name \notin BlankNames]_vars

\* Session s calls one of the write operations of the store.
WriteCall(s) ==
    \/ \E name \in Names, model \in Models, msgs \in MessageLists :
           SaveChatInsertChat(s, name, model, msgs)
    \/ \E chat_id \in ChatIds, model \in Models, msg \in MessageArgs :
           SaveChatMessage(s, chat_id, model, msg.role, msg.content)
    \/ \E chat_id \in ChatIds, model \in Models : UpdateChatModel(s, chat_id, model)
    \/ \E chat_id \in ChatIds : DeleteChat(s, chat_id)

\* C12: in degraded mode (ChatDB.__init__ failed) list_chats,
\* get_chat_messages and last_used_model return an empty result, and
\* save_chat, save_chat_message, update_chat_model and delete_chat log an
\* error, change nothing and return without raising.
C12_DegradedMode ==
    [][\A s \in Sessions :
          connection[s] = NoConnection
              => /\ list_chats(s) = {<<>>}
                 /\ \A id \in ChatIds : get_chat_messages(s, id) = <<>>
                 /\ last_used_model(s) = {None}
                 /\ WriteCall(s)
                       => /\ ret'.status = "returned"
                          /\ ret'.log = "error"
                          /\ UNCHANGED db]_vars

\* C13: no two stored chats share a non-empty name, and of two save_chat
\* calls in progress at once under one name at most one holds a stored chat
\* row.
C13_NamesUnique ==
    /\ \A c1, c2 \in chats :
          (c1.name = c2.name /\ c1.name # "") => c1 = c2
    /\ \A s1, s2 \in Sessions :
          (s1 # s2 /\ InSaveChat(s1) /\ InSaveChat(s2)
                /\ local[s1].name = local[s2].name)
              => ~(ChatExists(local[s1].rowid) /\ ChatExists(local[s2].rowid))

\* C13 witness: while the only save_chat ever begun is still in progress, a
\* save_chat of the other session under the same name raised ChatExistsError.
C13_Witness ==
    /\ seq_chats = 1 /\ seq_messages = 0
    /\ Cardinality(chats) = 1
    /\ \E s \in Sessions : InSaveChat(s)
    /\ ret.status = "ChatExistsError"

\* C17: list_chats returns the chats most recently created first: a chat
\* saved after another one comes before it, however close in time the two
\* saves were.
C17_ListChatsMostRecentFirst ==
    pc["s1"] = "idle"
        => \A r \in list_chats("s1") :
              \A i, j \in DOMAIN r : r[i].id > r[j].id => i < j

\* C21: constructing ChatDB again on a populated database raises nothing and
\* leaves the chat rows, the message rows and the counters exactly as they
\* were.
C21_InitIdempotent ==
    [][\A s \in Sessions :
          ChatDBInit(s)
              => /\ ret'.status = "returned"
                 /\ chats' = chats /\ messages' = messages
                 /\ seq_chats' = seq_chats /\ seq_messages' = seq_messages]_vars

\* C21 witness: ChatDB was constructed again, successfully, on a database
\* that held rows: a message without a chat can only have been inserted
\* while a pooled connection did not enforce foreign keys, and now every
\* pooled connection does.
C21_Witness ==
    /\ connection["s1"] = SQLConnection
    /\ \A c \in Conns : connFK[c]
    /\ chats # {}
    /\ \E m \in messages : ~ChatExists(m.chat_id)

\* C24: save_chat raises ChatExistsError only when a chat of the given name
\* existed when the call began: the first INSERT raises it only for a name
\* in use, and a failure after the first commit is never reported as
\* ChatExistsError.
C24_ChatExistsErrorOnlyForDuplicates ==
    [][\A s \in Sessions :
          /\ \A name \in Names \cup BlankNames, model \in Models,
                msgs \in MessageLists \cup {<<U>>} :
                (SaveChatInsertChat(s, name, model, msgs)
                    /\ pc'[s] = "idle" /\ ret'.status = "ChatExistsError")
                => NameInUse(name)
          /\ (pc[s] = "save_chat_messages" /\ pc'[s] = "idle")
                => ret'.status # "ChatExistsError"]_vars

\* C26: the messages of a save_chat call are attached to the chat row this
\* call inserted, and the id it returns is that row's id.
C26_MessagesAttachedToOwnRow ==
    [][\A s \in Sessions :
          (pc[s] = "save_chat_messages" /\ pc'[s] = "idle"
                /\ ret'.status = "returned")
              => /\ ret'.chat_id = local[s].rowid
                 /\ \A m \in messages' \ messages : m.chat_id = local[s].rowid]_vars

\* C23: a turn of a session without a chat id writes nothing to the store:
\* the prompt and the reply join the working history only.
C23_NoStoreWriteWithoutChatId ==
    [][\A s \in AppSessions :
          ss_chat_id[s] = NoneId
              => /\ ((\E prompt \in Prompts : StartTurn(s, prompt))
                        \/ (\E chunk \in Chunks : StreamChunk(s, chunk))
                        \/ TurnDone(s) \/ TurnFail(s))
                    => UNCHANGED db
                 /\ \A prompt \in Prompts :
                       StartTurn(s, prompt)
                           => ss_messages'[s] =
                                  Append(ss_messages[s], [role |-> "user", content |-> prompt])
                 /\ TurnDone(s)
                       => /\ ss_messages'[s] =
                                 Append(ss_messages[s],
                                        [role |-> "assistant", content |-> full_response[s]])
                          /\ ss_chat_id'[s] = NoneId]_vars

\* C23 witness: a session without a chat id completed a turn with a reply,
\* and the store is empty.
C23_Witness ==
    \E s \in AppSessions :
        /\ turn[s] = "completed" /\ ss_chat_id[s] = NoneId
        /\ Len(ss_messages[s]) = 3 /\ full_response[s] # <<>>
        /\ chats = {} /\ messages = {}

\* C27: a session's chat id is None or the id of a stored chat, whatever the
\* sessions do; and "Delete Chat" and "New Chat" leave the acting session
\* without a chat id and with an empty working history (which the next
\* script run greets).
C27_SessionChatIdLive ==
    [][\A s \in Sessions :
          /\ ss_chat_id'[s] = NoneId \/ \E c \in chats' : c.id = ss_chat_id'[s]
          /\ (AppDeleteChat(s) \/ AppNewChat(s))
                => (ss_chat_id'[s] = NoneId /\ ss_messages'[s] = Greeted(<<>>))]_vars

\* C25: after a completed turn of a session with a chat id, get_messages on
\* that id returns the session's working history.
C25_StoreAgreesWithHistory ==
    \A s \in AppSessions :
        (turn[s] = "completed" /\ ss_chat_id[s] # NoneId)
            => get_chat_messages(s, ss_chat_id[s]) = ss_messages[s]

\* The concatenation of a sequence of chunks, first chunk first.
RECURSIVE Concat(_)
Concat(chunks) == IF chunks = <<>> THEN <<>> ELSE Head(chunks) \o Concat(Tail(chunks))

Last(seq) == seq[Len(seq)]

\* C5: on done with a chat id active in the session, the turn appends exactly
\* one assistant message holding the full text to that chat in the store; and
\* no step of a turn before done writes to the store.
C5_DonePersistsAssistantMessage ==
    [][\A s \in AppSessions :
          /\ \A id \in ChatIds :
                (turn[s] = "streaming" /\ turn'[s] = "completed" /\ ss_chat_id[s] = id)
                => GetChatMessages(id)' =
                       Append(GetChatMessages(id),
                              [role |-> "assistant", content |-> full_response[s]])
          /\ (turn[s] = "streaming" /\ turn'[s] = "streaming")
                => (messages' = messages /\ chats' = chats)]_vars

\* C6: when the client raises during a turn, the turn ends failed, the text
\* so far is dropped, neither table changes, the working history is left as
\* it was and its last entry is the user's prompt.
C6_FailureDiscardsPartialReply ==
    [][\A s \in AppSessions :
          (turn[s] = "streaming" /\ turn'[s] # "streaming" /\ turn'[s] # "completed")
              => /\ turn'[s] = "failed"
                 /\ full_response'[s] = <<>>
                 /\ messages' = messages /\ chats' = chats
                 /\ ss_messages'[s] = ss_messages[s]
                 /\ Last(ss_messages'[s]).role = "user"
                 /\ Last(ss_messages'[s]).content \in Prompts]_vars

\* C6 witness: a turn of a session with a saved chat failed after the client
\* had produced a chunk.
C6_Witness ==
    \E s \in AppSessions :
        turn[s] = "failed" /\ Len(produced[s]) > 0 /\ ss_chat_id[s] # NoneId

\* C7: at done, the text returned and appended to the working history as the
\* assistant message is the concatenation of the chunks in the order the
\* client produced them.
C7_DoneTextIsConcatenation ==
    \A s \in AppSessions :
        turn[s] = "completed"
            => /\ full_response[s] = Concat(produced[s])
               /\ Last(ss_messages[s]) =
                      [role |-> "assistant", content |-> Concat(produced[s])]

IsProperPrefix(p, q) == Len(p) < Len(q) /\ SubSeq(q, 1, Len(p)) = p

\* C15: within a turn every text rendered extends the one rendered before
\* it, whatever chunks the client produces, empty ones included; while the
\* turn lasts the text rendered last is the concatenation of the chunks.
C15_PartialsPrefixMonotonic ==
    \A s \in AppSessions :
        /\ \A i \in 1..(Len(partials[s]) - 1) :
              IsProperPrefix(partials[s][i], partials[s][i + 1])
        /\ (turn[s] = "streaming" /\ partials[s] # <<>>)
              => Last(partials[s]) = Concat(produced[s])

\* C15 witness: the client produced a chunk and then an empty one.
C15_Witness ==
    \E s \in AppSessions :
        /\ turn[s] = "streaming"
        /\ produced[s] = <<(<<"a">>), (<<>>)>>
        /\ partials[s] = <<(<<"a">>)>>

\* C16: a stream that ends normally without a single chunk completes the
\* turn with the empty text, and an assistant message with empty content
\* joins the working history and, when the session has a chat id, that chat
\* in the store.
C16_EmptyCompletion ==
    [][\A s \in AppSessions :
          (TurnDone(s) /\ produced[s] = <<>>)
              => /\ turn'[s] = "completed"
                 /\ ss_messages'[s] =
                        Append(ss_messages[s], [role |-> "assistant", content |-> <<>>])
                 /\ \A id \in ChatIds :
                        ss_chat_id[s] = id
                            => GetChatMessages(id)' =
                                   Append(GetChatMessages(id),
                                          [role |-> "assistant", content |-> <<>>])]_vars

C19_ExplicitActionsSurfaceErrors ==
    [][\A s \in AppSessions :
          /\ \A name \in Names, model \in Models :
                (UniqueViolation(name) /\ AppSaveInsertChat(s, name, model))
                    => ret'.status # "returned"
          /\ (AppSaveInsertMessages(s) /\ messages' = messages)
                => ret'.status # "returned"]_vars

\* C20: update_chat_model changes the model of the chat row with that id and
\* nothing else: the other rows, the row's name and timestamp, every message
\* row and the counters stay; for an id without a row nothing changes; the
\* call returns without an error.
C20_UpdateChatModelFrame ==
    [][\A s \in Sessions, chat_id \in ChatIds, model \in TwoModels :
          UpdateChatModel(s, chat_id, model)
              => /\ messages' = messages
                 /\ seq_chats' = seq_chats /\ seq_messages' = seq_messages
                 /\ {c \in chats' : c.id # chat_id} = {c \in chats : c.id # chat_id}
                 /\ {c \in chats' : c.id = chat_id}
                        = {[c EXCEPT !.model = model] : c \in {d \in chats : d.id = chat_id}}
                 /\ ~ChatExists(chat_id) => chats' = chats
                 /\ ret'.status = "returned" /\ ret'.log = ""]_vars

\* C20 witness: a chat's model was changed after the chat was saved: the
\* message saved with it still carries the model of that time.
C20_Witness ==
    \E c \in chats, m \in messages :
        m.chat_id = c.id /\ m.role = "user" /\ m.model # c.model

\* C7 witness: a turn completed after two different chunks.
C7_Witness ==
    \E s \in AppSessions :
        turn[s] = "completed" /\ produced[s] = <<(<<"a">>), (<<"b">>)>>


\* C22: every stored message records the model that was selected when the
\* message was produced: after the user changed the model and saved the
\* chat, the rows of the prompts and replies of the earlier model carry the
\* earlier model, not the model passed to the save.
C22_MessageRecordsItsModel ==
    [][\A s \in AppSessions :
          (SaveChatInsertMessages(s) /\ ret'.status = "returned")
              => \A i \in 1..Len(ss_messages[s]) :
                    in_effect[s][i] # NoModel
                        => \A m \in messages' \ messages :
                              m.id = seq_messages + i => m.model = in_effect[s][i]]_vars

====
